---- MODULE Spec2Model ----
(***************************************************************************)
(* Model of the cnx status bar core: widget registration and the nested    *)
(* stream merge (Cnx::add_widget), the run loop (Cnx::run), the readiness  *)
(* bridge over the X connection (BarEventStream / XcbEventStream) and the  *)
(* property-change filter (XcbPropertiesStream).                           *)
(***************************************************************************)
EXTENDS Integers, Sequences, FiniteSets, TLC

\* ------------------------------------------------------------------ bounds
MaxWidgets == 2      \* add_widget calls before run
MaxProd == 3         \* values the widget streams produce, plus streams that end
MaxEvents == 2       \* raw events the X server sends
MaxControls == 3     \* sioctl control messages the volume stream handles
MaxFetches == 3      \* fetches the Weather stream begins
MaxDesktops == 3     \* largest desktop count, desktop index and name count the WM reports

\* ------------------------------------------------------------------ values
\* Content of a slot: 0 is the empty Vec<Text>; the j-th value of a widget
\* stream, when it is Ok, carries the text list j.
NoText == 0
Texts == 1..MaxProd

\* WidgetStreamI = Result<Vec<Text>>
OkVal(t) == [ok |-> TRUE, texts |-> t]
ErrVal == [ok |-> FALSE, texts |-> NoText]
WidgetStreamI == {OkVal(t) : t \in Texts} \cup {ErrVal}

\* Poll<Option<(usize, WidgetStreamI)>>
Pending == [kind |-> "Pending", idx |-> 0, val |-> ErrVal]
ReadyNone == [kind |-> "None", idx |-> 0, val |-> ErrVal]
ReadySome(i, v) == [kind |-> "Some", idx |-> i, val |-> v]

\* xcb::GenericEvent: response type and, for PROPERTY_NOTIFY, the atom
PROPERTY_NOTIFY == "PROPERTY_NOTIFY"
EXPOSE == "EXPOSE"
RawEvents == {[rt |-> PROPERTY_NOTIFY, atom |-> 1],
              [rt |-> PROPERTY_NOTIFY, atom |-> 2],
              [rt |-> EXPOSE, atom |-> 0]}
\* Marks the synthetic initial pulse in pulse_src
NoEvent == [rt |-> "none", atom |-> 0]
\* Poll::Pending returned by the bridge
EvPending == [rt |-> "Pending", atom |-> 0]

VARIABLES
  \* ---- Cnx / Bar
  contents,     \* Bar.contents: one slot per registered widget (slot i is contents[i+1])
  tags,         \* tags[k]: the idx captured by the map closure of the k-th add_widget
  a_first,      \* a_first[k]: flag of the Merge built by the k-th add_widget
  fuse_a,       \* fuse_a[k]: the Fuse around the previous merged stream has ended
  fuse_b,       \* fuse_b[k]: the Fuse around the k-th widget's stream has ended
  stream_gen_calls, \* stream_gen_calls[k]: calls of the k-th widget's stream_gen so far
  \* ---- widget streams (environment of the core)
  wq,           \* wq[k]: values the k-th widget stream has ready, not yet polled out
  wdone,        \* wdone[k]: the k-th widget stream ends once wq[k] is drained
  whist,        \* whist[k]: everything the k-th widget stream has produced, in order
  wret,         \* wret[k]: the k-th widget stream has returned end-of-stream
  repolled,     \* a widget stream was polled again after it returned end-of-stream
  \* ---- X connection and reactor
  sock,         \* events written by the server, not yet read from the socket
  xq,           \* events read from the socket into the connection's queue
  sent,         \* every event the server has sent, in order
  edge,         \* the kernel has a readable edge the reactor has not dispatched yet
  readiness,    \* the reactor's cached readable bit of the AsyncFd
  tick,         \* the reactor's tick of the last readiness update
  os_fail,      \* the reactor reports an error for the descriptor
  has_error,    \* the connection is shut down (xcb's has_error): the server is gone
  \* ---- bridge (BarEventStream / XcbEventStream)
  would_block,  \* the field would_block
  ready,        \* local `ready` of poll_next: -1 is None, else the guard's tick
  bret,         \* value the bridge's poll_next returned to its caller
  raced,        \* history: an event arrived between a failed decode and clear_ready
  depth,        \* nested calls of poll_next below the one the consumer made
  \* ---- run loop task
  pc,           \* position of the task
  todo,         \* select!: branches still to poll in this poll of the select
  disabled,     \* select!: branches disabled in this select invocation
  is_pending,   \* select!: some branch returned Pending in this poll
  woken,        \* the task's waker has been invoked
  out,          \* every (idx, value) the merged stream has delivered, in order
  processed,    \* every event passed to Bar::process_event, in order
  last_log,     \* what the last dispatched iteration printed
  \* ---- property filter (XcbPropertiesStream) and its consumer
  first,        \* the field first: TRUE is Some(()), FALSE is None
  seen,         \* every raw event the filter took from the bridge, in order
  pulse_src,    \* what each emitted pulse was emitted for, in order
  \* ---- widgets (Battery::tick, Pager::on_change)
  battery_info, \* what Battery::get_value returns: Err, or Ok(BatteryInfo)
  tick_ret,     \* what Battery::tick returned
  wm,           \* the WM's replies to the three EWMH requests of Pager::on_change
  on_change_ret, \* what Pager::on_change returned
  \* ---- OpenBsd::stream (volume)
  controls,     \* history: the sioctl control messages the stream has handled
  state,        \* local `state`: the last State yielded, Unknown before the first
  muted,        \* local `muted`
  percentage,   \* local `percentage`, in 255ths of a percent
  yielded,      \* history: the States the stream has yielded, in order
  \* ---- Weather::into_stream
  weather_pc,   \* where the body of the try_stream! stands
  weather_items, \* history: the items the Weather stream has yielded, in order
  weather_none, \* the Weather stream has returned end-of-stream
  fetch_times,  \* history: the time, in seconds, at which each fetch began
  clock,        \* the time in seconds
  since,        \* the time at which the stream's body came to weather_pc
  deadline      \* the instant the current tokio::time::sleep completes at

cnxVars == <<contents, tags, a_first, fuse_a, fuse_b, stream_gen_calls>>
widgetVars == <<wq, wdone, whist, wret, repolled>>
connVars == <<sock, xq, sent, edge, readiness, tick, os_fail, has_error>>
bridgeVars == <<would_block, ready, bret, raced, depth>>
loopVars == <<pc, todo, disabled, is_pending, woken, out, processed, last_log>>
propVars == <<first, seen, pulse_src>>
volumeVars == <<controls, state, muted, percentage, yielded>>
weatherVars == <<weather_pc, weather_items, weather_none, fetch_times, clock, since, deadline>>
contribVars == <<battery_info, tick_ret, wm, on_change_ret, volumeVars, weatherVars>>
vars == <<cnxVars, widgetVars, connVars, bridgeVars, loopVars, propVars, contribVars>>

\* Number of registered widgets: Bar.contents.len()
N == Len(contents)

\* ------------------------------------------------------- stream multiplexer
\* The mutable state a poll of the merged stream reads and writes.
MergeState == [wq |-> wq, a_first |-> a_first, fuse_a |-> fuse_a, fuse_b |-> fuse_b,
               wret |-> wret, repolled |-> repolled]

\* The element of a one-element set; `Only({F(x) : x \in {e}})` evaluates e once
\* and hands its value to F.
Only(S) == CHOOSE x \in S : TRUE

\* Poll of the k-th widget's stream mapped with `move |v| (idx, v)`.
PollWidget(k, st) ==
  IF st.wq[k] # <<>>
    THEN [r |-> ReadySome(tags[k], Head(st.wq[k])),
          st |-> [st EXCEPT !.wq[k] = Tail(@),
                            !.repolled = @ \/ st.wret[k]]]
    ELSE IF wdone[k]
      THEN [r |-> ReadyNone,
            st |-> [st EXCEPT !.repolled = @ \/ st.wret[k], !.wret[k] = TRUE]]
      ELSE [r |-> Pending, st |-> [st EXCEPT !.repolled = @ \/ st.wret[k]]]

\* Faulty variant of FuseMark: the end of the inner stream is not remembered.
FuseMarkNever(r) == FALSE

\* Fuse<S>::poll_next drops the inner stream when it returns end-of-stream.
FuseMark(r) == r.kind = "None"

\* Fuse<S>::poll_next around the k-th widget's stream (side b of the k-th Merge).
FuseB(k, st) ==
  IF st.fuse_b[k]
    THEN [r |-> ReadyNone, st |-> st]
    ELSE Only({IF FuseMark(p.r)
                 THEN [r |-> p.r, st |-> [p.st EXCEPT !.fuse_b[k] = TRUE]]
                 ELSE p : p \in {PollWidget(k, st)}})

\* Second half of tokio_stream's merge::poll_next: `done` is FALSE when the
\* first side was Pending.
MergeSecond(second, firstPending) ==
  Only({IF p2.r.kind = "Some" THEN p2
        ELSE IF p2.r.kind = "Pending" \/ firstPending
               THEN [r |-> Pending, st |-> p2.st]
               ELSE [r |-> ReadyNone, st |-> p2.st] : p2 \in {second}})

\* Faulty variant of the toggle: the flag keeps its value.
ToggleNever(b) == b

\* `*me.a_first = !a_first`: the Merge flips its flag on every poll.
Toggle(b) == ~b

\* Faulty variant of ReturnsFirst: the second side is polled even when the
\* first side yielded a value.
ReturnsFirstNever(r) == FALSE

\* merge::poll_next returns at once when the side polled first yields a value.
ReturnsFirst(r) == r.kind = "Some"

RECURSIVE PollMerge(_, _)
\* Poll of the stream held by Cnx after k add_widget calls:
\* k = 0 is tokio_stream::empty(), k > 0 is Merge(previous, mapped widget k).
PollMerge(k, st) ==
  IF k = 0 THEN [r |-> ReadyNone, st |-> st]
  ELSE
    LET af == st.a_first[k]
        s0 == [st EXCEPT !.a_first[k] = Toggle(af)]
        \* Fuse around the previous merged stream (side a)
        FuseA(s) == IF s.fuse_a[k]
                      THEN [r |-> ReadyNone, st |-> s]
                      ELSE Only({IF FuseMark(p.r)
                                   THEN [r |-> p.r,
                                         st |-> [p.st EXCEPT !.fuse_a[k] = TRUE]]
                                   ELSE p : p \in {PollMerge(k - 1, s)}})
    IN Only({IF ReturnsFirst(p1.r) THEN p1
             ELSE MergeSecond(IF af THEN FuseB(k, p1.st) ELSE FuseA(p1.st),
                              p1.r.kind = "Pending")
             : p1 \in {IF af THEN FuseA(s0) ELSE FuseB(k, s0)}})

\* Writes the state a merged poll left behind.
StoreMerge(st) ==
  /\ wq' = st.wq
  /\ a_first' = st.a_first
  /\ fuse_a' = st.fuse_a
  /\ fuse_b' = st.fuse_b
  /\ wret' = st.wret
  /\ repolled' = st.repolled

\* ------------------------------------------------------------ render state
\* Bar::add_content: pushes a slot and returns its index.
add_content(c) == [idx |-> Len(contents), contents |-> Append(contents, c)]

\* Faulty variant of update_content: the other slots are emptied.
update_content_clears(idx, texts) ==
  [k \in 1..Len(contents) |-> IF k = idx + 1 THEN texts ELSE NoText]

\* Bar::update_content: replaces the slot's content.
update_content(idx, texts) == [contents EXCEPT ![idx + 1] = texts]

\* -------------------------------------------------------------------- Init
\* A function that has not been called has returned nothing.
NotCalled == [called |-> FALSE]

\* No Battery or Pager value is being computed.
\* enum State { Unknown, Muted, Unmuted { percentage } }
Unknown == [kind |-> "Unknown", percentage |-> 0]
Muted == [kind |-> "Muted", percentage |-> 0]
Unmuted(p) == [kind |-> "Unmuted", percentage |-> p]

\* The locals of OpenBsd::stream before the first control message:
\* `state = State::Unknown`, `muted = false`, `percentage = 1.0`.
VolumeIdle ==
  /\ controls = <<>> /\ yielded = <<>>
  /\ state = Unknown /\ muted = FALSE /\ percentage = 255

\* The Weather stream as into_stream returns it: nothing has run yet.
WeatherIdle ==
  /\ weather_pc = "start" /\ weather_items = <<>> /\ weather_none = FALSE
  /\ fetch_times = <<>> /\ clock = 0 /\ since = 0 /\ deadline = 0

NoWidgetCall ==
  /\ battery_info = NotCalled /\ tick_ret = NotCalled
  /\ wm = NotCalled /\ on_change_ret = NotCalled
  /\ VolumeIdle
  /\ WeatherIdle

\* Cnx::new: no slot, the empty stream; nothing sent, nothing polled.
InitCnx ==
  /\ contents = <<>> /\ tags = <<>> /\ a_first = <<>> /\ fuse_a = <<>> /\ fuse_b = <<>>
  /\ stream_gen_calls = <<>>
  /\ wq = <<>> /\ wdone = <<>> /\ whist = <<>> /\ wret = <<>> /\ repolled = FALSE
  /\ sock = <<>> /\ xq = <<>> /\ sent = <<>> /\ edge = FALSE /\ readiness = FALSE
  /\ tick = 0 /\ os_fail = FALSE /\ has_error = FALSE
  /\ would_block = TRUE /\ ready = -1 /\ bret = EvPending /\ raced = FALSE
  /\ depth = 0
  /\ pc = "config" /\ todo = <<>> /\ disabled = {} /\ is_pending = FALSE
  /\ woken = FALSE /\ out = <<>> /\ processed = <<>> /\ last_log = "none"
  /\ first = TRUE /\ seen = <<>> /\ pulse_src = <<>>

Init == InitCnx /\ NoWidgetCall

\* ------------------------------------------------------------ registration
\* Faulty variant of TagFor: every closure captures index 0.
TagZero(a) == 0

\* The idx the closure `move |v| (idx, v)` captures: add_content's result.
TagFor(a) == a.idx

\* WidgetStream::into_stream: `(self.stream_gen)(self.widget)`, one call of
\* the generator, which takes the WidgetStream and its widget by value.
into_stream == 1

\* Cnx::add_widget succeeding: a slot with empty content, and the widget's
\* stream tagged with the slot's index merged onto the stream built so far.
AddWidget ==
  /\ pc = "config"
  /\ N < MaxWidgets
  /\ LET a == add_content(NoText)
     IN /\ contents' = a.contents
        /\ tags' = Append(tags, TagFor(a))
  /\ a_first' = Append(a_first, TRUE)
  /\ fuse_a' = Append(fuse_a, FALSE)
  /\ fuse_b' = Append(fuse_b, FALSE)
  /\ stream_gen_calls' = Append(stream_gen_calls, into_stream)
  /\ wq' = Append(wq, <<>>)
  /\ wdone' = Append(wdone, FALSE)
  /\ whist' = Append(whist, <<>>)
  /\ wret' = Append(wret, FALSE)
  /\ UNCHANGED <<repolled, connVars, bridgeVars, loopVars, propVars, contribVars>>

\* Cnx::add_widget failing (add_content or the stream generator returned Err):
\* `?` returns the error and the Cnx, moved into the call, is dropped.
AddWidgetFails ==
  /\ pc = "config"
  /\ N < MaxWidgets
  /\ pc' = "failed"
  /\ UNCHANGED <<cnxVars, widgetVars, connVars, bridgeVars, propVars, contribVars,
                 todo, disabled, is_pending, woken, out, processed, last_log>>

\* ------------------------------------------------------------- environment
Running == pc \notin {"config", "failed", "crashed"}

RECURSIVE SumLen(_)
SumLen(ss) == IF ss = <<>> THEN 0 ELSE Len(Head(ss)) + SumLen(Tail(ss))

\* What the widget streams have done so far: values produced and streams ended.
Fed == SumLen(whist) + Cardinality({j \in 1..N : wdone[j]})

\* The k-th widget's stream gets a value ready (a tick elapses, a read ends):
\* Ok with fresh content, or Err.
Produce(k, ok) ==
  /\ Running
  /\ k \in 1..N
  /\ ~wdone[k]
  /\ Fed < MaxProd
  /\ LET v == IF ok THEN OkVal(Len(whist[k]) + 1) ELSE ErrVal
     IN /\ wq' = [wq EXCEPT ![k] = Append(@, v)]
        /\ whist' = [whist EXCEPT ![k] = Append(@, v)]
  /\ woken' = TRUE
  /\ UNCHANGED <<cnxVars, wdone, wret, repolled, connVars, bridgeVars, propVars, contribVars,
                 pc, todo, disabled, is_pending, out, processed, last_log>>

\* The k-th widget's stream has nothing more to produce.
EndStream(k) ==
  /\ Running
  /\ k \in 1..N
  /\ ~wdone[k]
  /\ Fed < MaxProd
  /\ wdone' = [wdone EXCEPT ![k] = TRUE]
  /\ woken' = TRUE
  /\ UNCHANGED <<cnxVars, wq, whist, wret, repolled, connVars, bridgeVars, propVars, contribVars,
                 pc, todo, disabled, is_pending, out, processed, last_log>>

\* The X server writes an event to the socket; the kernel raises a readable edge.
Arrive(e) ==
  /\ pc # "failed"
  /\ Len(sent) < MaxEvents
  /\ sock' = Append(sock, e)
  /\ sent' = Append(sent, e)
  /\ edge' = TRUE
  /\ raced' = (raced \/ pc = "ev_clear")
  /\ UNCHANGED <<xq, readiness, tick, os_fail, has_error, would_block, ready, bret, depth>>
  /\ UNCHANGED <<cnxVars, widgetVars, loopVars, propVars, contribVars>>

\* Faulty variant of ReactorWakes: the waker poll_read_ready left is forgotten.
ReactorForgetsWaker == FALSE

\* poll_read_ready, returning Pending, has registered the task's waker with
\* the AsyncFd: the reactor wakes the task when it sets the readiness.
ReactorWakes == TRUE

\* The reactor dispatches the kernel's edge: it sets the cached readiness
\* under a new tick and wakes the task waiting on the descriptor.
Driver ==
  /\ Running
  /\ edge
  /\ edge' = FALSE
  /\ readiness' = TRUE
  /\ tick' = tick + 1
  /\ woken' = (woken \/ ReactorWakes)
  /\ UNCHANGED <<sock, xq, sent, os_fail, has_error>>
  /\ UNCHANGED <<cnxVars, widgetVars, bridgeVars, propVars, contribVars,
                 pc, todo, disabled, is_pending, out, processed, last_log>>

\* The reactor starts failing for the descriptor.
FailOS ==
  /\ Running
  /\ ~os_fail
  /\ os_fail' = TRUE
  /\ woken' = TRUE
  /\ UNCHANGED <<sock, xq, sent, edge, readiness, tick, has_error>>
  /\ UNCHANGED <<cnxVars, widgetVars, bridgeVars, propVars, contribVars,
                 pc, todo, disabled, is_pending, out, processed, last_log>>

\* The X server goes away: the connection shuts down, nothing can be decoded
\* from it any more, and the socket, at end of file, raises a readable edge.
Disconnect ==
  /\ Running
  /\ ~has_error
  /\ has_error' = TRUE
  /\ edge' = TRUE
  /\ UNCHANGED <<sock, xq, sent, readiness, tick, os_fail>>
  /\ UNCHANGED <<cnxVars, widgetVars, bridgeVars, loopVars, propVars, contribVars>>

\* ------------------------------------------------------------------ bridge
\* AsyncFd::poll_read_ready as the bridge sees it.
poll_read_ready ==
  IF os_fail THEN "Err" ELSE IF readiness THEN "Ready" ELSE "Pending"

\* Faulty variant of OnReadyErr: the error is returned as Poll::Pending.
OnReadyErrPending == "ev_ret"

\* Where poll_next goes when poll_read_ready returns Err: panic!.
OnReadyErr == "crashed"

\* Faulty variant of Decodable: only the queue is looked at, the socket is
\* not read (poll_for_queued_event).
DecodableQueued == xq

\* Events poll_for_event can return: the connection's queue, then what the
\* socket holds (poll_for_event reads the socket without blocking).
Decodable == xq \o sock

\* Faulty variant of ConsultsReactor: the reactor is asked on every poll.
ConsultsReactorAlways(wb) == TRUE

\* `if self_.would_block`: the reactor is consulted only in WouldBlock.
ConsultsReactor(wb) == wb

\* Faulty variant of OnNotReady: the connection is read although the reactor
\* reports the descriptor not ready.
OnNotReadyDecodes == "ev_decode"

\* `Poll::Pending => return Poll::Pending`: poll_next returns to its caller.
OnNotReady == "ev_ret"

\* First half of poll_next: `if self_.would_block { match poll_read_ready ... }`.
BridgeTop ==
  /\ \/ pc = "branches" /\ todo # <<>> /\ Head(todo) = "ev"
     \/ pc = "ev_top"
  /\ IF ConsultsReactor(would_block)
       THEN CASE poll_read_ready = "Ready" ->
                   /\ ready' = tick
                   /\ would_block' = FALSE
                   /\ pc' = "ev_decode"
                   /\ UNCHANGED <<bret, raced, depth>>
              [] poll_read_ready = "Err" ->
                   /\ pc' = OnReadyErr
                   /\ bret' = EvPending
                   /\ depth' = 0
                   /\ UNCHANGED <<ready, would_block, raced>>
              [] poll_read_ready = "Pending" ->
                   /\ pc' = OnNotReady
                   /\ bret' = EvPending
                   /\ ready' = -1
                   /\ depth' = 0
                   /\ UNCHANGED <<would_block, raced>>
       ELSE /\ ready' = -1
            /\ pc' = "ev_decode"
            /\ UNCHANGED <<would_block, bret, raced, depth>>
  /\ UNCHANGED <<cnxVars, widgetVars, connVars, propVars, contribVars,
                 todo, disabled, is_pending, woken, out, processed, last_log>>

\* Faulty variant of PollForEvent: with several events waiting, the oldest is
\* skipped.
PollForEventLossy ==
  IF has_error THEN <<>>
  ELSE IF Len(Decodable) > 1 THEN Tail(Decodable) ELSE Decodable

\* What conn.poll_for_event() can return: nothing at all once the connection
\* is shut down (it returns None without looking at the queue or the socket).
PollForEvent == IF has_error THEN <<>> ELSE Decodable

\* Faulty variant of AfterNoEvent: clear_ready is reached with or without a guard.
AfterNoEventClears(r) == "ev_clear"

\* Where poll_next continues after a decode that yielded no event.
AfterNoEvent(r) == IF r = -1 THEN "ev_top" ELSE "ev_clear"

\* Second half of poll_next: `match conn.poll_for_event()`.
BridgeDecode ==
  /\ pc = "ev_decode"
  /\ IF PollForEvent # <<>>
       THEN /\ bret' = Head(PollForEvent)
            /\ xq' = Tail(PollForEvent)
            /\ sock' = <<>>
            /\ pc' = "ev_ret"
            /\ raced' = FALSE
            /\ depth' = 0
            /\ UNCHANGED would_block
       ELSE /\ would_block' = TRUE
            /\ pc' = AfterNoEvent(ready)
            /\ depth' = IF ready = -1 THEN depth + 1 ELSE depth
            /\ bret' = EvPending
            /\ UNCHANGED <<xq, sock, raced>>
  /\ UNCHANGED <<ready, sent, edge, readiness, tick, os_fail, has_error>>
  /\ UNCHANGED <<cnxVars, widgetVars, propVars, contribVars,
                 todo, disabled, is_pending, woken, out, processed, last_log>>

\* Faulty variant of clear_ready: the readiness is never cleared.
clear_ready_never(r) == readiness

\* Faulty variant of clear_ready: the readiness is cleared whatever the tick.
clear_ready_always(r) == FALSE

\* AsyncFdReadyGuard::clear_ready: clears the cached readiness unless the
\* reactor has set it again (a newer tick) since the guard was obtained.
clear_ready(r) == IF r = tick THEN FALSE ELSE readiness

\* `r.clear_ready(); self.poll_next(cx)`
BridgeClear ==
  /\ pc = "ev_clear"
  /\ readiness' = clear_ready(ready)
  /\ pc' = "ev_top"
  /\ depth' = depth + 1
  /\ UNCHANGED <<sock, xq, sent, edge, tick, os_fail, has_error,
                 would_block, ready, bret, raced>>
  /\ UNCHANGED <<cnxVars, widgetVars, propVars, contribVars,
                 todo, disabled, is_pending, woken, out, processed, last_log>>

\* ---------------------------------------------------------------- run loop
\* Cnx::run up to the loop: BarEventStream::new(bar)? registers the descriptor.
Run ==
  /\ pc = "config"
  /\ \/ /\ pc' = "select"
        /\ would_block' = TRUE
     \/ /\ pc' = "failed"
        /\ UNCHANGED would_block
  /\ UNCHANGED <<cnxVars, widgetVars, connVars, propVars, contribVars, ready, bret, raced, depth,
                 todo, disabled, is_pending, woken, out, processed, last_log>>

\* Faulty variant of BranchOrder: the branches are polled in the order they
\* are written (`biased;`).
BranchOrderBiased(start) == <<"ev", "w">>

\* Branches of the select in the order a poll starting at `start` visits them.
BranchOrder(start) == IF start = "ev" THEN <<"ev", "w">> ELSE <<"w", "ev">>

\* One poll of the select!: a random start branch, disabled branches skipped.
SelectStart(start) ==
  /\ pc = "select"
  /\ todo' = SelectSeq(BranchOrder(start), LAMBDA b : b \notin disabled)
  /\ is_pending' = FALSE
  /\ last_log' = "none"
  /\ pc' = "branches"
  /\ UNCHANGED <<cnxVars, widgetVars, connVars, bridgeVars, propVars, contribVars,
                 disabled, woken, out, processed>>

\* Faulty variant of DispatchSlot: every update goes to slot 0.
DispatchSlotZero(idx) == 0

\* The slot the run loop updates for a delivery tagged idx.
DispatchSlot(idx) == idx

\* Faulty variant of Applies: an Err is applied like an Ok.
ApplyErrToo(v) == TRUE

\* `match result`: Ok is applied with update_content, Err is only logged.
Applies(v) == v.ok

\* Faulty variant of OnStreamEnd: run returns when the merged stream ends.
OnStreamEndReturns == "failed"

\* `Some((idx, result)) = stream.next()` not matching (the merged stream has
\* ended): the branch is disabled and the select goes on with the others.
OnStreamEnd == "branches"

\* Faulty variant of AfterHandler: the error is propagated with `?` and ends run.
AfterHandlerTry(res) == IF res = "none" THEN "select" ELSE "failed"

\* `if let Err(err) = ... { println!(...) }`: whatever the Bar operation
\* returned, the handler ends and the loop starts its next iteration.
AfterHandler(res) == "select"

\* Faulty variant of process_event: handling an event empties the slots.
process_event_resets(event) == [k \in 1..N |-> NoText]

\* Bar::process_event: handles the event; the slots' contents are not touched.
process_event(event) == contents

\* Faulty variant of RestartsOn: a widget whose stream yielded Err is given a
\* fresh stream.
RestartsOnErr(v) == ~v.ok

\* The handlers of run hold no WidgetStream: add_widget consumed it, and no
\* arm calls into_stream, whatever the stream yielded.
RestartsOn(v) == FALSE

\* What a Render State operation does to the shared connection. With reads it
\* sends its requests while bytes wait on the socket, and the X library moves
\* them into the connection's queue; the edge the reactor has not dispatched
\* yet is either still reported or lost, the descriptor being no longer
\* readable when the reactor asks. Without reads the connection is untouched.
BarOpConn(reads) ==
  IF reads
    THEN /\ sock # <<>>
         /\ xq' = xq \o sock
         /\ sock' = <<>>
         /\ \E lost \in BOOLEAN : edge' = (edge /\ ~lost)
         /\ UNCHANGED <<sent, readiness, tick, os_fail, has_error>>
    ELSE UNCHANGED connVars

\* The widget arm: `Some((idx, result)) = stream.next()` and its handler;
\* rec tells whether the delivery is appended to the history out, reads
\* whether update_content reads the connection.
PollWidgetsOp(rec, reads) ==
  /\ pc = "branches" /\ todo # <<>> /\ Head(todo) = "w"
  /\ \E p \in {PollMerge(N, MergeState)} :
        /\ StoreMerge(p.st)
        /\ stream_gen_calls' =
              IF p.r.kind = "Some" /\ RestartsOn(p.r.val)
                THEN [stream_gen_calls EXCEPT ![p.r.idx + 1] = @ + into_stream]
                ELSE stream_gen_calls
        /\ CASE p.r.kind = "Pending" ->
                  /\ is_pending' = TRUE
                  /\ todo' = Tail(todo)
                  /\ ~reads
                  /\ UNCHANGED <<pc, disabled, out, contents, last_log, connVars>>
             [] p.r.kind = "None" ->
                  /\ disabled' = disabled \cup {"w"}
                  /\ todo' = Tail(todo)
                  /\ pc' = OnStreamEnd
                  /\ ~reads
                  /\ UNCHANGED <<is_pending, out, contents, last_log, connVars>>
             [] p.r.kind = "Some" ->
                  /\ out' = IF rec THEN Append(out, <<p.r.idx, p.r.val>>) ELSE out
                  /\ IF Applies(p.r.val)
                       THEN IF DispatchSlot(p.r.idx) < N
                              THEN /\ contents' = update_content(DispatchSlot(p.r.idx),
                                                                 p.r.val.texts)
                                   /\ BarOpConn(reads)
                                   /\ \E res \in {"none", "update_err"} :
                                         /\ last_log' = res
                                         /\ pc' = AfterHandler(res)
                              ELSE /\ pc' = "crashed"
                                   /\ ~reads
                                   /\ UNCHANGED <<contents, last_log, connVars>>
                       ELSE /\ last_log' = "widget_err"
                            /\ pc' = "select"
                            /\ ~reads
                            /\ UNCHANGED <<contents, connVars>>
                  /\ disabled' = {}
                  /\ todo' = <<>>
                  /\ UNCHANGED is_pending
  /\ UNCHANGED <<tags, wdone, whist, bridgeVars, propVars, contribVars, woken, processed>>

\* The widget arm with a handler that leaves the connection alone.
PollWidgetsRec(rec) == PollWidgetsOp(rec, FALSE)

PollWidgets == PollWidgetsRec(TRUE)

\* The event arm: `Some(event) = event_stream.next()` and its handler; rec
\* tells whether the event is appended to the history processed, reads
\* whether process_event reads the connection.
RunEvReturnOp(rec, reads) ==
  /\ pc = "ev_ret"
  /\ IF bret = EvPending
       THEN /\ is_pending' = TRUE
            /\ todo' = Tail(todo)
            /\ pc' = "branches"
            /\ ~reads
            /\ UNCHANGED <<contents, disabled, processed, last_log, connVars>>
       ELSE /\ processed' = IF rec THEN Append(processed, bret) ELSE processed
            /\ contents' = process_event(bret)
            /\ BarOpConn(reads)
            /\ \E res \in {"none", "event_err"} :
                  /\ last_log' = res
                  /\ pc' = AfterHandler(res)
            /\ disabled' = {}
            /\ todo' = <<>>
            /\ UNCHANGED is_pending
  /\ UNCHANGED <<tags, a_first, fuse_a, fuse_b, stream_gen_calls, widgetVars, bridgeVars,
                 propVars, contribVars, woken, out>>

\* The event arm with a handler that leaves the connection alone.
RunEvReturnRec(rec) == RunEvReturnOp(rec, FALSE)

RunEvReturn == RunEvReturnRec(TRUE)

\* Every branch has been polled: the select returns Pending, or panics when
\* all branches are disabled (there is no else branch).
SelectEnd ==
  /\ pc = "branches" /\ todo = <<>>
  /\ pc' = IF is_pending THEN "parked" ELSE "crashed"
  /\ UNCHANGED <<cnxVars, widgetVars, connVars, bridgeVars, propVars, contribVars,
                 todo, disabled, is_pending, woken, out, processed, last_log>>

\* The scheduler polls the task again after its waker was invoked.
Wake ==
  /\ pc = "parked"
  /\ woken
  /\ woken' = FALSE
  /\ pc' = "select"
  /\ UNCHANGED <<cnxVars, widgetVars, connVars, bridgeVars, propVars, contribVars,
                 todo, disabled, is_pending, out, processed, last_log>>

\* -------------------------------------------------------- property filter
\* The interest set: atoms of the properties the consumer asked for.
props == {1}

\* Faulty variant of Matches: the interest set is not consulted.
MatchesAnyNotify(e) == e.rt = PROPERTY_NOTIFY

\* `e.response_type() == PROPERTY_NOTIFY` and `self.props.contains(&event.atom())`
Matches(e) == IF e.rt = PROPERTY_NOTIFY THEN e.atom \in props ELSE FALSE

\* Faulty variant of OnNoMatch: the poll gives up at the first event it swallows.
OnNoMatchPends == "f_parked"

\* An event that does not match falls out of both `if`s and the `loop` runs
\* its body again: the inner bridge is polled once more in the same poll.
OnNoMatch == "ev_top"

\* XcbPropertiesStream::poll_next up to the first poll of the inner bridge:
\* `if let Some(v) = self.first.take() { return Poll::Ready(Some(v)) }`.
FilterPoll ==
  /\ pc = "f_idle"
  /\ IF first
       THEN /\ first' = FALSE
            /\ pulse_src' = Append(pulse_src, NoEvent)
            /\ UNCHANGED pc
       ELSE /\ pc' = "ev_top"
            /\ UNCHANGED <<first, pulse_src>>
  /\ UNCHANGED <<cnxVars, widgetVars, connVars, bridgeVars, contribVars, seen,
                 todo, disabled, is_pending, woken, out, processed, last_log>>

\* The body of the loop: `match ready!(inner.poll_next(cx))`.
FilterInner ==
  /\ pc = "ev_ret"
  /\ IF bret = EvPending
       THEN /\ pc' = "f_parked"
            /\ UNCHANGED <<seen, pulse_src>>
       ELSE /\ seen' = Append(seen, bret)
            /\ IF Matches(bret)
                 THEN /\ pulse_src' = Append(pulse_src, bret)
                      /\ pc' = "f_idle"
                 ELSE /\ pc' = OnNoMatch
                      /\ UNCHANGED pulse_src
  /\ UNCHANGED <<cnxVars, widgetVars, connVars, bridgeVars, contribVars, first,
                 todo, disabled, is_pending, woken, out, processed, last_log>>

\* The consumer of the filter is polled again after its waker was invoked.
FilterWake ==
  /\ pc = "f_parked"
  /\ woken
  /\ woken' = FALSE
  /\ pc' = "f_idle"
  /\ UNCHANGED <<cnxVars, widgetVars, connVars, bridgeVars, propVars, contribVars,
                 todo, disabled, is_pending, out, processed, last_log>>

\* ------------------------------------------------- always-ready widget streams
\* The k-th widget's stream, drained, has a value ready again; no history kept.
Refill(k, v) ==
  /\ Running
  /\ k \in 1..N
  /\ wq[k] = <<>>
  /\ wq' = [wq EXCEPT ![k] = <<v>>]
  /\ woken' = TRUE
  /\ UNCHANGED <<cnxVars, wdone, whist, wret, repolled, connVars, bridgeVars, propVars, contribVars,
                 pc, todo, disabled, is_pending, out, processed, last_log>>

PollWidgetsFair == PollWidgetsRec(FALSE)

\* ------------------------------------------------- always-available events
\* The read of the socket that found the last decoded event had brought one
\* more event of the same burst into the connection's queue; no history kept.
Burst(e) ==
  /\ Running
  /\ ~would_block
  /\ Decodable = <<>>
  /\ xq' = <<e>>
  /\ UNCHANGED <<sock, sent, edge, readiness, tick, os_fail, has_error>>
  /\ UNCHANGED <<cnxVars, widgetVars, bridgeVars, loopVars, propVars, contribVars>>

RunEvReturnFair == RunEvReturnRec(FALSE)

Next ==
  \/ AddWidget
  \/ AddWidgetFails
  \/ Run
  \/ \E k \in 1..MaxWidgets, ok \in BOOLEAN : Produce(k, ok)
  \/ \E k \in 1..MaxWidgets : EndStream(k)
  \/ \E e \in RawEvents : Arrive(e)
  \/ Driver
  \/ FailOS
  \/ \E start \in {"ev", "w"} : SelectStart(start)
  \/ PollWidgets
  \/ BridgeTop
  \/ BridgeDecode
  \/ BridgeClear
  \/ RunEvReturn
  \/ SelectEnd
  \/ Wake

\* The whole bar: widgets producing and the X server sending.
Spec == Init /\ [][Next]_vars

\* The run loop while the X server is silent.
NextMux ==
  \/ AddWidget
  \/ AddWidgetFails
  \/ Run
  \/ \E k \in 1..MaxWidgets, ok \in BOOLEAN : Produce(k, ok)
  \/ \E k \in 1..MaxWidgets : EndStream(k)
  \/ \E start \in {"ev", "w"} : SelectStart(start)
  \/ PollWidgets
  \/ BridgeTop
  \/ RunEvReturn
  \/ SelectEnd
  \/ Wake
SpecMux == Init /\ [][NextMux]_vars

\* The run loop while no widget produces.
NextEvents ==
  \/ AddWidget
  \/ AddWidgetFails
  \/ Run
  \/ \E e \in RawEvents : Arrive(e)
  \/ Driver
  \/ FailOS
  \/ \E start \in {"ev", "w"} : SelectStart(start)
  \/ PollWidgets
  \/ BridgeTop
  \/ BridgeDecode
  \/ BridgeClear
  \/ RunEvReturn
  \/ SelectEnd
  \/ Wake
SpecEvents == Init /\ [][NextEvents]_vars

\* The property filter over its own connection, polled by its consumer.
InitProps ==
  /\ NoWidgetCall
  /\ contents = <<>> /\ tags = <<>> /\ a_first = <<>> /\ fuse_a = <<>> /\ fuse_b = <<>>
  /\ stream_gen_calls = <<>>
  /\ wq = <<>> /\ wdone = <<>> /\ whist = <<>> /\ wret = <<>> /\ repolled = FALSE
  /\ sock = <<>> /\ xq = <<>> /\ sent = <<>> /\ edge = FALSE /\ readiness = FALSE
  /\ tick = 0 /\ os_fail = FALSE /\ has_error = FALSE
  /\ would_block = TRUE /\ ready = -1 /\ bret = EvPending /\ raced = FALSE
  /\ depth = 0
  /\ pc = "f_idle" /\ todo = <<>> /\ disabled = {} /\ is_pending = FALSE
  /\ woken = FALSE /\ out = <<>> /\ processed = <<>> /\ last_log = "none"
  /\ first = TRUE /\ seen = <<>> /\ pulse_src = <<>>

NextProps ==
  \/ \E e \in RawEvents : Arrive(e)
  \/ Driver
  \/ FailOS
  \/ FilterPoll
  \/ BridgeTop
  \/ BridgeDecode
  \/ BridgeClear
  \/ FilterInner
  \/ FilterWake
SpecProps == InitProps /\ [][NextProps]_vars

\* The run loop over widget streams that are ready again and again.
TaskStep ==
  \/ \E start \in {"ev", "w"} : SelectStart(start)
  \/ PollWidgetsFair
  \/ BridgeTop
  \/ RunEvReturn
  \/ SelectEnd
  \/ Wake
NextFair ==
  \/ AddWidget
  \/ AddWidgetFails
  \/ Run
  \/ \E k \in 1..MaxWidgets, v \in {ErrVal, OkVal(1)} : Refill(k, v)
  \/ TaskStep
SpecFair == Init /\ [][NextFair]_vars /\ WF_vars(TaskStep)

\* The run loop with both arms busy: widget streams ready again and again, and
\* bursts of events that go on and on. The runtime keeps polling the task, the
\* reactor dispatches every edge, and the select's random start picks each
\* branch again and again.
ExposeOnly == {[rt |-> EXPOSE, atom |-> 0]}
TaskStepBusy ==
  \/ \E start \in {"ev", "w"} : SelectStart(start)
  \/ PollWidgetsFair
  \/ BridgeTop
  \/ BridgeDecode
  \/ BridgeClear
  \/ RunEvReturnFair
  \/ SelectEnd
  \/ Wake
NextBusy ==
  \/ AddWidget
  \/ AddWidgetFails
  \/ Run
  \/ \E k \in 1..MaxWidgets : Refill(k, OkVal(1))
  \/ \E e \in ExposeOnly : sent = <<>> /\ Arrive(e)
  \/ \E e \in ExposeOnly : Burst(e)
  \/ Driver
  \/ TaskStepBusy
SpecBusy ==
  /\ Init /\ [][NextBusy]_vars
  /\ WF_vars(TaskStepBusy)
  /\ WF_vars(Driver)
  /\ \A start \in {"ev", "w"} : SF_vars(SelectStart(start))

\* The run loop while the widget streams produce nothing and end one by one,
\* the X server sends and the reactor may start failing.
NextEnds ==
  \/ AddWidget
  \/ AddWidgetFails
  \/ Run
  \/ \E k \in 1..MaxWidgets : EndStream(k)
  \/ \E e \in ExposeOnly : Arrive(e)
  \/ Driver
  \/ FailOS
  \/ \E start \in {"ev", "w"} : SelectStart(start)
  \/ PollWidgets
  \/ BridgeTop
  \/ BridgeDecode
  \/ BridgeClear
  \/ RunEvReturn
  \/ SelectEnd
  \/ Wake
SpecEnds == Init /\ [][NextEnds]_vars

\* The run loop's own steps when no widget stream ever yields a value.
TaskStepQuiet ==
  \/ \E start \in {"ev", "w"} : SelectStart(start)
  \/ PollWidgets
  \/ BridgeTop
  \/ BridgeDecode
  \/ BridgeClear
  \/ RunEvReturn
  \/ SelectEnd
  \/ Wake

\* The run loop with widget streams that only end, or with no widget at all,
\* while the X server sends events: the task is scheduled whenever it can
\* run and the reactor dispatches every edge.
NextQuiet ==
  \/ AddWidget
  \/ AddWidgetFails
  \/ Run
  \/ \E k \in 1..MaxWidgets : EndStream(k)
  \/ \E e \in ExposeOnly : Running /\ Arrive(e)
  \/ Driver
  \/ TaskStepQuiet
SpecQuiet == Init /\ [][NextQuiet]_vars /\ WF_vars(TaskStepQuiet) /\ WF_vars(Driver)

\* The run loop while the X server sends and then goes away.
NextFault ==
  \/ AddWidget
  \/ AddWidgetFails
  \/ Run
  \/ \E e \in ExposeOnly : Arrive(e)
  \/ Driver
  \/ Disconnect
  \/ \E start \in {"ev", "w"} : SelectStart(start)
  \/ PollWidgets
  \/ BridgeTop
  \/ BridgeDecode
  \/ BridgeClear
  \/ RunEvReturn
  \/ SelectEnd
  \/ Wake
SpecFault == Init /\ [][NextFault]_vars

\* The task is between two polls of the select, and the inputs (widget values
\* and events together) have not used up their budget.
Between == pc \in {"select", "parked"} /\ Fed + Len(sent) < MaxProd

\* The run loop with both arms fed: widget values and events arrive between
\* the polls of the select; the reactor dispatches whenever it likes.
NextBoth ==
  \/ AddWidget
  \/ AddWidgetFails
  \/ Run
  \/ \E k \in 1..MaxWidgets, ok \in BOOLEAN : Between /\ Produce(k, ok)
  \/ \E e \in ExposeOnly : Between /\ Arrive(e)
  \/ Driver
  \/ \E start \in {"ev", "w"} : SelectStart(start)
  \/ PollWidgets
  \/ BridgeTop
  \/ BridgeDecode
  \/ BridgeClear
  \/ RunEvReturn
  \/ SelectEnd
  \/ Wake
SpecBoth == Init /\ [][NextBoth]_vars

\* The run loop with both arms fed, over a connection that the Render State
\* operations share with the bridge: each of them may read the socket. Widget
\* values are fed between the polls, events arrive at any time.
NextShared ==
  \/ AddWidget
  \/ AddWidgetFails
  \/ Run
  \/ \E k \in 1..MaxWidgets, ok \in BOOLEAN : Between /\ Produce(k, ok)
  \/ \E e \in ExposeOnly : Fed + Len(sent) < MaxProd /\ Arrive(e)
  \/ Driver
  \/ \E start \in {"ev", "w"} : SelectStart(start)
  \/ \E reads \in BOOLEAN : PollWidgetsOp(TRUE, reads)
  \/ BridgeTop
  \/ BridgeDecode
  \/ BridgeClear
  \/ \E reads \in BOOLEAN : RunEvReturnOp(TRUE, reads)
  \/ SelectEnd
  \/ Wake
SpecShared == Init /\ [][NextShared]_vars

\* ------------------------------------------------------------ Battery::tick
\* enum Status
Status == {"Full", "Charging", "Discharging", "Unknown"}

\* BatteryInfo.capacity is a u8
Capacities == 0..255

\* Results of Battery::get_value: the files could not be read or parsed, or
\* a BatteryInfo.
Readings ==
  {[called |-> TRUE, ok |-> FALSE, status |-> "Unknown", capacity |-> 0]}
  \cup {[called |-> TRUE, ok |-> TRUE, status |-> st, capacity |-> c] :
          st \in Status, c \in Capacities}

\* `battery_info.status == Status::Discharging && battery_info.capacity <= 10`
Warns(info) == info.status = "Discharging" /\ info.capacity <= 10

\* Battery::tick: the fg_color of the one Text it returns, or the error of
\* get_value passed on by `?`.
Battery_tick(info) ==
  IF ~info.ok
    THEN [called |-> TRUE, ok |-> FALSE, fg_color |-> "none"]
    ELSE [called |-> TRUE, ok |-> TRUE,
          fg_color |-> IF Warns(info) THEN "warning_color" ELSE "attr.fg_color"]

\* The interval stream's `map(move |_| self.tick())` for one reading.
Tick ==
  /\ battery_info # NotCalled
  /\ tick_ret = NotCalled
  /\ tick_ret' = Battery_tick(battery_info)
  /\ UNCHANGED <<battery_info, wm, on_change_ret, volumeVars, weatherVars>>
  /\ UNCHANGED <<cnxVars, widgetVars, connVars, bridgeVars, loopVars, propVars>>

InitBattery ==
  /\ InitCnx
  /\ battery_info \in Readings
  /\ tick_ret = NotCalled /\ wm = NotCalled /\ on_change_ret = NotCalled
  /\ VolumeIdle
  /\ WeatherIdle

NextBattery == Tick
SpecBattery == InitBattery /\ [][NextBattery]_vars

\* -------------------------------------------------------- Pager::on_change
\* Replies to get_number_of_desktops and get_current_desktop: an error, or a count.
CountReplies ==
  {[ok |-> FALSE, val |-> 0]} \cup {[ok |-> TRUE, val |-> n] : n \in 0..MaxDesktops}

\* The text "?" given to a desktop without a name; the j-th name the WM
\* reports is the text j.
Unnamed == 0

\* Replies to get_desktop_names: an error, or a list of names.
NamesReplies ==
  {[ok |-> FALSE, val |-> <<>>]}
  \cup {[ok |-> TRUE, val |-> [j \in 1..l |-> j]] : l \in 0..MaxDesktops}

\* What the WM answers to one call of on_change.
WmReplies ==
  {[called |-> TRUE, number |-> n, current |-> c, names |-> ns] :
     n \in CountReplies, c \in CountReplies, ns \in NamesReplies}

\* `.get_reply().unwrap_or(0)`
unwrap_or(reply, default) == IF reply.ok THEN reply.val ELSE default

\* Faulty variant of FitNames: surplus names are cut, missing ones not made up.
FitNamesTruncates(names, number) ==
  IF Len(names) > number THEN SubSeq(names, 1, number) ELSE names

\* `match names.len().cmp(&number)`: truncated to number names, or extended
\* with "?" up to number names.
FitNames(names, number) ==
  IF Len(names) > number THEN SubSeq(names, 1, number)
  ELSE IF Len(names) < number
         THEN names \o [j \in 1..(number - Len(names)) |-> Unnamed]
         ELSE names

\* Faulty variant of SegmentAttr: the first segment is the highlighted one.
SegmentAttrFirst(i, current) == IF i = 0 THEN "active_attr" ELSE "inactive_attr"

\* `if i == current { active_attr } else { inactive_attr }`
SegmentAttr(i, current) == IF i = current THEN "active_attr" ELSE "inactive_attr"

\* Pager::on_change: one Text per name, enumerated from 0.
Pager_on_change(w) ==
  LET number == unwrap_or(w.number, 0)
      current == unwrap_or(w.current, 0)
      names == FitNames(IF w.names.ok THEN w.names.val ELSE <<>>, number)
  IN [called |-> TRUE,
      texts |-> [i \in 1..Len(names) |->
                   [attr |-> SegmentAttr(i - 1, current), text |-> names[i]]]]

\* The item the Pager's stream yields for one pulse:
\* `Ok(self.on_change(&conn, screen_idx))`.
PagerItem(w) == [ok |-> TRUE, called |-> TRUE, texts |-> Pager_on_change(w).texts]

\* The properties stream's `map(move |()| Ok(self.on_change(&conn, screen_idx)))`
\* for one pulse.
OnChange ==
  /\ wm # NotCalled
  /\ on_change_ret = NotCalled
  /\ on_change_ret' = PagerItem(wm)
  /\ UNCHANGED <<battery_info, tick_ret, wm, volumeVars, weatherVars>>
  /\ UNCHANGED <<cnxVars, widgetVars, connVars, bridgeVars, loopVars, propVars>>

InitPager ==
  /\ InitCnx
  /\ wm \in WmReplies
  /\ battery_info = NotCalled /\ tick_ret = NotCalled /\ on_change_ret = NotCalled
  /\ VolumeIdle
  /\ WeatherIdle

NextPager == OnChange
SpecPager == InitPager /\ [][NextPager]_vars

\* --------------------------------------------------------- OpenBsd::stream
\* The u8 values the control messages carry here: both ends, the two values
\* the mute control uses, and one in between.
Levels == {0, 1, 128, 255}

\* A sioctl control message: (name, func, value).
Controls ==
  {[name |-> n, func |-> f, value |-> v] :
     n \in {"output", "input"}, f \in {"mute", "level"}, v \in Levels}

\* OpenBsd::percentage: `(f32::from(value) / f32::from(u8::MAX)) * 100.0`,
\* kept exact as the number of 255ths of a percent (1.0 is 255).
OpenBsd_percentage(value) == value * 100

\* Faulty variant of Differs: every message yields a state.
DiffersAlways(a, b) == TRUE

\* `state != new` (derived PartialEq on State)
Differs(a, b) == a # b

\* One turn of the loop in OpenBsd::stream for the control message c.
HandleControl(c) ==
  /\ Len(controls) < MaxControls
  /\ controls' = Append(controls, c)
  /\ muted' = IF c.name = "output" /\ c.func = "mute" /\ c.value = 1 THEN TRUE
              ELSE IF c.name = "output" /\ c.func = "mute" /\ c.value = 0 THEN FALSE
              ELSE muted
  /\ percentage' = IF c.name = "output" /\ c.func = "level"
                     THEN OpenBsd_percentage(c.value)
                     ELSE percentage
  /\ \E new \in {IF muted' THEN Muted ELSE Unmuted(percentage')} :
        IF Differs(state, new)
          THEN /\ state' = new
               /\ yielded' = Append(yielded, new)
          ELSE UNCHANGED <<state, yielded>>
  /\ UNCHANGED <<battery_info, tick_ret, wm, on_change_ret, weatherVars>>
  /\ UNCHANGED <<cnxVars, widgetVars, connVars, bridgeVars, loopVars, propVars>>

NextVolume == \E c \in Controls : HandleControl(c)
SpecVolume == Init /\ [][NextVolume]_vars

\* ----------------------------------------------------- Weather::into_stream
\* `let thirty_minutes = 30 * 60;` seconds
thirty_minutes == 30 * 60

\* The grain of the clock: time passes in steps of ten minutes.
TimeStep == 10 * 60

\* Faulty variant of AfterFetchErr: the loop goes on after a failed fetch.
AfterFetchErrRetries == "yielded"

\* `get_weather(..).await?` inside try_stream!: the error is yielded as the
\* stream's last item and the body of the stream is over.
AfterFetchErr == "ended"

\* How long the body can stay where it is: a fetch and the consumer's next
\* poll take up to one step of the clock, and the consumer notices a
\* completed sleep up to one step late.
Lingers ==
  CASE weather_pc = "fetching" -> TimeStep
    [] weather_pc = "yielded" -> TimeStep
    [] weather_pc = "sleeping" -> (deadline - since) + TimeStep
    [] OTHER -> 0

\* Time passes while the stream's body is suspended.
Elapse ==
  /\ clock < since + Lingers
  /\ clock' = clock + TimeStep
  /\ UNCHANGED <<weather_pc, weather_items, weather_none, fetch_times, since, deadline>>
  /\ UNCHANGED <<battery_info, tick_ret, wm, on_change_ret, volumeVars>>
  /\ UNCHANGED <<cnxVars, widgetVars, connVars, bridgeVars, loopVars, propVars>>

\* The top of the `loop`: `get_weather(self.station_code.clone())` is called,
\* at the first poll of the stream or once the sleep has completed.
FetchStart ==
  /\ \/ weather_pc = "start"
     \/ weather_pc = "sleeping" /\ clock >= deadline
  /\ Len(fetch_times) < MaxFetches
  /\ weather_pc' = "fetching"
  /\ fetch_times' = Append(fetch_times, clock)
  /\ since' = clock
  /\ UNCHANGED <<weather_items, weather_none, clock, deadline>>
  /\ UNCHANGED <<battery_info, tick_ret, wm, on_change_ret, volumeVars>>
  /\ UNCHANGED <<cnxVars, widgetVars, connVars, bridgeVars, loopVars, propVars>>

\* The fetch completes: `.await?` then `yield texts`, or the error is yielded.
FetchDone(ok) ==
  /\ weather_pc = "fetching"
  /\ IF ok
       THEN /\ weather_items' = Append(weather_items, OkVal(1))
            /\ weather_pc' = "yielded"
       ELSE /\ weather_items' = Append(weather_items, ErrVal)
            /\ weather_pc' = AfterFetchErr
  /\ since' = clock
  /\ UNCHANGED <<weather_none, fetch_times, clock, deadline>>
  /\ UNCHANGED <<battery_info, tick_ret, wm, on_change_ret, volumeVars>>
  /\ UNCHANGED <<cnxVars, widgetVars, connVars, bridgeVars, loopVars, propVars>>

\* The consumer polls the stream again after an item: the body resumes behind
\* the `yield` and `tokio::time::sleep(sleep_for).await` begins.
SleepStart ==
  /\ weather_pc = "yielded"
  /\ weather_pc' = "sleeping"
  /\ deadline' = clock + thirty_minutes
  /\ since' = clock
  /\ UNCHANGED <<weather_items, weather_none, fetch_times, clock>>
  /\ UNCHANGED <<battery_info, tick_ret, wm, on_change_ret, volumeVars>>
  /\ UNCHANGED <<cnxVars, widgetVars, connVars, bridgeVars, loopVars, propVars>>

\* The consumer polls the stream after its body is over: end-of-stream.
PollEnded ==
  /\ weather_pc = "ended"
  /\ ~weather_none
  /\ weather_none' = TRUE
  /\ UNCHANGED <<weather_pc, weather_items, fetch_times, clock, since, deadline>>
  /\ UNCHANGED <<battery_info, tick_ret, wm, on_change_ret, volumeVars>>
  /\ UNCHANGED <<cnxVars, widgetVars, connVars, bridgeVars, loopVars, propVars>>

NextWeather ==
  \/ Elapse
  \/ FetchStart
  \/ \E ok \in BOOLEAN : FetchDone(ok)
  \/ SleepStart
  \/ PollEnded
SpecWeather == Init /\ [][NextWeather]_vars

\* ------------------------------------------------------------------ claims
\* Values of the deliveries in o that carry index i, in delivery order.
RECURSIVE Restrict(_, _)
Restrict(o, i) ==
  IF o = <<>> THEN <<>>
  ELSE IF Head(o)[1] = i THEN <<Head(o)[2]>> \o Restrict(Tail(o), i)
       ELSE Restrict(Tail(o), i)

\* Content of the last Ok value of h, or the empty content when h has none.
RECURSIVE LastOk(_)
LastOk(h) ==
  IF h = <<>> THEN NoText
  ELSE IF h[Len(h)].ok THEN h[Len(h)].texts
       ELSE LastOk(SubSeq(h, 1, Len(h) - 1))

\* C1: the deliveries of the merged stream that carry index i are, in order,
\* exactly what the widget registered i-th has produced, up to the values it
\* still holds ready: nothing reordered, duplicated or lost.
C1_PerIndexOrder ==
  \A k \in 1..N : Restrict(out, k - 1) \o wq[k] = whist[k]

\* C1 witness: two widgets, deliveries interleaved (index 1 first, then two of index 0).
C1_Witness ==
  /\ N = 2
  /\ Len(out) = 3
  /\ out[1][1] = 1
  /\ Len(Restrict(out, 0)) = 2
  /\ wq = <<<<>>, <<>>>>

C6_ErrKeepsSlot ==
  [][/\ (Len(out') = Len(out) + 1 /\ ~out'[Len(out')][2].ok) =>
          (contents' = contents /\ last_log' = "widget_err" /\ pc' = "select")
     /\ \A k \in 1..N :
          (Len(contents') = Len(contents) /\ contents'[k] # contents[k]) =>
             /\ Len(out') = Len(out) + 1
             /\ out'[Len(out')][1] = k - 1
             /\ out'[Len(out')][2].ok
             /\ contents'[k] = out'[Len(out')][2].texts]_vars

\* C6 witness: slot 0 showed 1, kept it across the Err, and now shows 3.
C6_Witness ==
  /\ N >= 1
  /\ out = <<<<0, OkVal(1)>>, <<0, ErrVal>>, <<0, OkVal(3)>>>>
  /\ contents[1] = 3

\* C8: the k-th registered widget is tagged k (from 0), the slots are the
\* dense range 0..N-1, and every delivery carries an index of that range whose
\* widget has produced the delivered value.
C8_DenseTags ==
  /\ Len(tags) = N
  /\ \A k \in 1..N : tags[k] = k - 1
  /\ \A j \in 1..Len(out) :
       /\ out[j][1] \in 0..(N - 1)
       /\ \E m \in 1..Len(whist[out[j][1] + 1]) : whist[out[j][1] + 1][m] = out[j][2]

\* C8 witness: a delivery tagged 1 carrying the second value of the second widget.
C8_Witness ==
  /\ N = 2
  /\ \E j \in 1..Len(out) : out[j] = <<1, OkVal(2)>>

\* C9: the merged stream ends only when every widget stream has ended; a
\* stream that has ended is never polled again; and a poll of the merged
\* stream that delivers nothing leaves no widget with a value ready.
C9_EndsWhenAllEnd ==
  /\ [](~repolled)
  /\ []("w" \in disabled => \A k \in 1..N : wret[k])
  /\ [][(pc = "branches" /\ todo # <<>> /\ Head(todo) = "w" /\ todo' = Tail(todo)
          /\ out' = out) =>
          \A k \in 1..N : wq'[k] = <<>>]_vars

\* C9 witness: the first widget's stream has ended and the merged stream has
\* just delivered a value of the second, still live, stream.
C9_Witness ==
  /\ N = 2
  /\ wret[1] /\ ~wdone[2]
  /\ pc = "select"
  /\ out # <<>>
  /\ out[Len(out)][1] = 1
  /\ "w" \notin disabled

\* The event the bridge has returned and its caller has not handled yet.
InFlight == IF pc = "ev_ret" /\ bret # EvPending THEN <<bret>> ELSE <<>>

\* C2 as stated: after an event arrived between the failed decode and
\* clear_ready, no poll of the bridge returns pending before that event.
C2_RetryReturnsEvent ==
  ~(raced /\ pc = "ev_ret" /\ bret = EvPending)

\* C2 amended: a poll that returns pending after such an arrival leaves the
\* event in the socket with its readiness notification outstanding (raised by
\* the kernel or cached by the reactor), and a decode attempted after such an
\* arrival finds the event.
C2_NoMissedWakeup ==
  /\ (raced /\ pc = "ev_ret" /\ bret = EvPending) =>
        (sock # <<>> /\ (edge \/ readiness))
  /\ (raced /\ pc = "ev_decode") => Decodable # <<>>

\* C2 witness: the retry returned pending although the event had arrived
\* before clear_ready; the reactor has not dispatched its notification yet.
C2_Witness ==
  /\ raced /\ pc = "ev_ret" /\ bret = EvPending
  /\ sock # <<>> /\ edge /\ ~readiness /\ would_block

\* C3: the bridge returns the events in the order they were sent, none lost
\* or repeated; a pending return leaves would_block = TRUE; and with no
\* readiness notification outstanding a pending return comes only after every
\* buffered event has been returned.
C3_Drain ==
  /\ processed \o InFlight \o xq \o sock = sent
  /\ (pc = "ev_ret" /\ bret = EvPending) => would_block
  /\ (pc = "ev_ret" /\ bret = EvPending /\ ~edge /\ ~readiness) =>
        (processed = sent /\ Decodable = <<>>)

\* C3 witness: two events buffered under a single readiness notification have
\* both been returned and the bridge is back to pending in WouldBlock.
C3_Witness ==
  /\ tick = 1 /\ ~edge /\ ~readiness
  /\ Len(sent) = 2 /\ processed = sent
  /\ pc = "ev_ret" /\ bret = EvPending /\ would_block

\* The filter's criterion as the claim words it.
IsInteresting(e) == e.rt = PROPERTY_NOTIFY /\ e.atom \in {1}

\* C4: the filter's pulses are one synthetic pulse, emitted before the bridge
\* is polled at all, followed by one pulse per PROPERTY_NOTIFY event with an
\* atom of the interest set, in order, and nothing else.
C4_Pulses ==
  /\ first => (pulse_src = <<>> /\ seen = <<>> /\ pc = "f_idle" /\ ready = -1)
  /\ ~first => pulse_src = <<NoEvent>> \o SelectSeq(seen, IsInteresting)

\* C4 witness: a PROPERTY_NOTIFY outside the interest set was swallowed and
\* one inside it produced the second pulse.
C4_Witness ==
  /\ seen = <<[rt |-> PROPERTY_NOTIFY, atom |-> 2], [rt |-> PROPERTY_NOTIFY, atom |-> 1]>>
  /\ Len(pulse_src) = 2
  /\ pc = "f_idle"

\* C7: a bridge poll that finds the reactor failing ends in the crashed
\* state, and from the crashed state no slot is updated, no event is
\* processed and no widget stream is polled.
C7_FatalStops ==
  /\ [][(/\ \/ pc = "branches" /\ todo # <<>> /\ Head(todo) = "ev"
            \/ pc = "ev_top"
         /\ would_block /\ os_fail
         /\ <<pc, todo>>' # <<pc, todo>>) => pc' = "crashed"]_vars
  /\ [][pc = "crashed" =>
          /\ pc' = "crashed"
          /\ contents' = contents /\ processed' = processed /\ out' = out
          /\ a_first' = a_first /\ wq' = wq /\ xq' = xq]_vars

\* C7 witness: crashed on the reactor's error with a widget registered and an
\* event left unread in the socket.
C7_Witness ==
  /\ pc = "crashed" /\ os_fail
  /\ N >= 1
  /\ sock # <<>>

\* C10: under a run loop that keeps being scheduled, a value a widget stream
\* has ready is eventually taken by the merged stream, whatever the other
\* streams have ready.
C10_NoStarvation ==
  \A k \in 1..MaxWidgets :
     (k <= N /\ wq[k] # <<>>) ~> (k <= N /\ wq[k] = <<>>)

\* C10 witness: both streams have a value ready again after each has had a
\* value applied to its slot.
C10_Witness ==
  /\ N = 2
  /\ contents = <<1, 1>>
  /\ wq[1] # <<>> /\ wq[2] # <<>>
  /\ pc = "select"

\* C11: with the run loop scheduled and the select starting at each branch
\* again and again, a value a widget stream has ready is eventually taken and
\* dispatched even while events keep being available, and an event the
\* connection holds is eventually returned by the bridge to the event arm even
\* while widget values keep being available.
C11_NeitherArmStarves ==
  /\ \A k \in 1..MaxWidgets :
        (k <= N /\ wq[k] # <<>>) ~> (k <= N /\ wq[k] = <<>>)
  /\ (Running /\ Decodable # <<>>) ~> (pc = "ev_ret" /\ bret # EvPending)

\* C11 witness: a widget update has been applied while the bridge is in the
\* middle of a burst, and both arms have something ready again.
C11_Witness ==
  /\ N >= 1
  /\ contents[1] = 1
  /\ ~would_block /\ xq # <<>>
  /\ wq[1] # <<>>
  /\ pc = "select"

\* The task is about to run the first half of the bridge's poll_next.
AtBridgeEntry ==
  \/ pc = "branches" /\ todo # <<>> /\ Head(todo) = "ev"
  \/ pc = "ev_top"

\* C12: once run has entered its loop it never returns, and it crashes only
\* in a bridge poll that asks the reactor (would_block = TRUE) while the
\* reactor is failing; with no widget at all and with every widget stream
\* ended the loop keeps waiting on the event arm.
C12_OnlyFatalStops ==
  [][pc \notin {"config", "failed"} =>
       /\ pc' \notin {"config", "failed"}
       /\ (pc # "crashed" /\ pc' = "crashed") =>
             (AtBridgeEntry /\ would_block /\ os_fail)]_vars

\* C12 witness: both registered streams have ended, the widget arm is
\* disabled, an event has been processed and the loop is parked on the event arm.
C12_Witness ==
  /\ N = 2
  /\ wret = <<TRUE, TRUE>>
  /\ "w" \in disabled
  /\ processed # <<>>
  /\ pc = "parked"

\* The last handler printed the error its Bar operation returned.
HandlerErrLogged == last_log \in {"update_err", "event_err"}

\* C13: after update_content or process_event returned an error, which the
\* handler printed, the loop is at its next select with both branches enabled
\* (it has neither returned nor crashed), and from there a value a widget
\* stream has ready is still eventually dispatched and an event the connection
\* holds is still eventually returned to the event arm.
C13_ErrorsKeepLoop ==
  /\ [](HandlerErrLogged => (pc = "select" /\ disabled = {}))
  /\ \A k \in 1..MaxWidgets :
        (HandlerErrLogged /\ k <= N /\ wq[k] # <<>>) ~> (k <= N /\ wq[k] = <<>>)
  /\ (HandlerErrLogged /\ Decodable # <<>>) ~> (pc = "ev_ret" /\ bret # EvPending)

\* C13 witness: process_event has just returned an error, after an earlier
\* update of slot 0, and both a widget value and an event wait to be dispatched.
C13_Witness ==
  /\ last_log = "event_err"
  /\ pc = "select"
  /\ N >= 1 /\ contents[1] = 1
  /\ wq[1] # <<>>
  /\ xq # <<>>

\* C14 as stated: a decode attempt that yields no event because the
\* connection is shut down ends in the crashed state.
C14_FaultIsFatal ==
  [][(pc = "ev_decode" /\ has_error /\ pc' # pc) => pc' = "crashed"]_vars

\* C14, what the code does: a decode attempt that yields no event, for
\* whatever reason, sets would_block and goes on to the retry; the bridge
\* never crashes on a shut down connection.
C14_FaultIsNoEvent ==
  /\ [][(pc = "ev_decode" /\ (has_error \/ Decodable = <<>>) /\ pc' # pc) =>
          (would_block' /\ pc' \in {"ev_top", "ev_clear"} /\ bret' = EvPending)]_vars
  /\ [](pc # "crashed")

\* C14 witness: the connection is shut down with an event left in its queue,
\* the bridge is back in WouldBlock with no readiness notification outstanding
\* and the run loop is parked.
C14_Witness ==
  /\ has_error
  /\ would_block /\ ~readiness /\ ~edge
  /\ Decodable # <<>>
  /\ pc = "parked"

\* The step calls process_event.
ProcessEventStep == processed' # processed

\* The step calls update_content.
UpdateContentStep == Len(out') = Len(out) + 1 /\ out'[Len(out')][2].ok

\* C15 as stated: update_content and process_event, which work on the
\* connection the bridge reads, are called only while the bridge is in
\* WouldBlock, that is after the drain a readiness notification started has
\* found the connection empty.
C15_DrainBeforeBarOps ==
  [][(ProcessEventStep \/ UpdateContentStep) => would_block]_vars

\* C15, what the code does: process_event is called for each event as soon as
\* the bridge returns it, in the middle of the drain (would_block = FALSE);
\* the rest of the drain follows in later polls of the bridge.
C15_BarOpsMidDrain ==
  [][ProcessEventStep => (~would_block /\ ~would_block' /\ pc = "ev_ret")]_vars

\* C15 witness: process_event has been called and the bridge has not gone
\* back to WouldBlock: the drain is unfinished, an event still waits in the
\* connection.
C15_Witness ==
  /\ ~would_block
  /\ Decodable # <<>>
  /\ processed # <<>>
  /\ pc = "select"

\* C16: a delivery (i, Ok(v)) sets slot i to v and leaves every other slot as
\* it was; a delivery (i, Err), the handling of an event, and every step that
\* delivers nothing leave every slot as it was.
C16_SlotFrame ==
  [][/\ UpdateContentStep =>
          \A k \in 1..N :
             contents'[k] = IF k = out'[Len(out')][1] + 1
                              THEN out'[Len(out')][2].texts
                              ELSE contents[k]
     /\ ~UpdateContentStep => \A k \in 1..N : contents'[k] = contents[k]
     /\ ProcessEventStep => contents' = contents]_vars

\* C16 witness: both slots have been updated and an event has been processed;
\* the slots still show what was delivered to them.
C16_Witness ==
  /\ N = 2
  /\ contents = <<1, 1>>
  /\ processed # <<>>
  /\ Len(out) = 2
  /\ pc = "select"

\* C17 as stated: the text is in warning_color exactly when the capacity is
\* below 10, whatever the status.
C17_WarnsBelowTen ==
  (tick_ret # NotCalled /\ tick_ret.ok) =>
     (tick_ret.fg_color = "warning_color" <=> battery_info.capacity < 10)

\* C17, what the code does: the text is in warning_color exactly when the
\* battery is discharging with a capacity of at most 10, and in the
\* configured foreground colour otherwise.
C17_WarnsDischargingUpToTen ==
  (tick_ret # NotCalled /\ tick_ret.ok) =>
     /\ tick_ret.fg_color = "warning_color" <=>
           (battery_info.status = "Discharging" /\ battery_info.capacity <= 10)
     /\ tick_ret.fg_color \in {"warning_color", "attr.fg_color"}

\* C17 witness: discharging at exactly 10 percent, rendered in warning_color.
C17_Witness ==
  /\ tick_ret # NotCalled
  /\ tick_ret.ok
  /\ battery_info.status = "Discharging" /\ battery_info.capacity = 10
  /\ tick_ret.fg_color = "warning_color"

\* Indexes (from 1) of the segments of on_change's result that carry active_attr.
Highlighted ==
  {i \in 1..Len(on_change_ret.texts) : on_change_ret.texts[i].attr = "active_attr"}

\* C18 as stated: segment i carries active_attr exactly when i is the current
\* desktop's index, and exactly one segment is highlighted whenever the WM
\* reports at least one desktop.
C18_OneHighlighted ==
  on_change_ret # NotCalled =>
     /\ \A i \in 1..Len(on_change_ret.texts) :
           i \in Highlighted <=> i - 1 = unwrap_or(wm.current, 0)
     /\ unwrap_or(wm.number, 0) >= 1 => Cardinality(Highlighted) = 1

\* C18 amended: there is one segment per reported desktop, named by the WM or
\* "?"; segment i carries active_attr exactly when i is the current desktop's
\* index; so exactly one segment is highlighted when the current index is
\* below the number of desktops, and none is otherwise.
C18_HighlightsCurrent ==
  on_change_ret # NotCalled =>
     LET number == unwrap_or(wm.number, 0)
         current == unwrap_or(wm.current, 0)
         texts == on_change_ret.texts
     IN /\ Len(texts) = number
        /\ \A i \in 1..Len(texts) :
              /\ i \in Highlighted <=> i - 1 = current
              /\ texts[i].attr \in {"active_attr", "inactive_attr"}
              /\ texts[i].text = IF wm.names.ok /\ i <= Len(wm.names.val)
                                   THEN wm.names.val[i] ELSE Unnamed
        /\ Cardinality(Highlighted) = IF current < number THEN 1 ELSE 0

\* C18 witness: two desktops, the WM reports the current index 3: two
\* segments, none highlighted.
C18_Witness ==
  /\ on_change_ret # NotCalled
  /\ wm.number = [ok |-> TRUE, val |-> 2]
  /\ wm.current = [ok |-> TRUE, val |-> 3]
  /\ Len(on_change_ret.texts) = 2
  /\ Highlighted = {}

\* C19: a poll of the bridge in WouldBlock that finds the descriptor not
\* ready returns pending, stays in WouldBlock and reads nothing from the
\* connection: its queue and the socket are as they were.
C19_NotReadyPending ==
  [][(AtBridgeEntry /\ would_block /\ poll_read_ready = "Pending" /\ pc' # pc) =>
       /\ pc' = "ev_ret" /\ bret' = EvPending
       /\ would_block'
       /\ xq' = xq /\ sock' = sock]_vars

\* C19 witness: the reactor has dispatched nothing yet; the bridge has
\* returned pending in WouldBlock with an event unread in the socket.
C19_Witness ==
  /\ pc = "ev_ret" /\ bret = EvPending
  /\ would_block
  /\ tick = 0
  /\ sock # <<>>

\* C20: from the poll that returns an event until the next poll returns, the
\* bridge has would_block = FALSE; and a poll entered with would_block = FALSE
\* goes straight to the decode: it takes no readiness guard, cannot return
\* pending or panic on the reactor's answer, and leaves the readiness as it is.
C20_EventKeepsDraining ==
  /\ [](bret # EvPending => ~would_block)
  /\ [][(AtBridgeEntry /\ ~would_block /\ pc' # pc) =>
          (pc' = "ev_decode" /\ ready' = -1 /\ readiness' = readiness)]_vars

\* C20 witness: after an event has been processed the bridge is polled again
\* and is at its decode without a readiness guard, although the reactor
\* would have answered with an error.
C20_Witness ==
  /\ pc = "ev_decode"
  /\ ready = -1
  /\ ~would_block
  /\ processed # <<>>
  /\ os_fail

\* C21 as stated: every decode attempt that yields no event sets would_block
\* and goes on to clear the readiness before the poll is re-run, whether or
\* not the poll began in WouldBlock.
C21_AlwaysClears ==
  [][(pc = "ev_decode" /\ PollForEvent = <<>> /\ pc' # pc) =>
       (would_block' /\ pc' = "ev_clear")]_vars

\* C21 amended: every decode attempt that yields no event sets would_block
\* and leaves the readiness as it is; when this call of poll_next took a
\* readiness guard (it began in WouldBlock) it goes on to clear_ready and then
\* re-runs the poll, and when it took none (it began off WouldBlock) it
\* re-runs the poll at once, the readiness still cached.
C21_ClearsOnlyWithGuard ==
  /\ [][(pc = "ev_decode" /\ PollForEvent = <<>> /\ pc' # pc) =>
          /\ would_block'
          /\ readiness' = readiness
          /\ pc' = IF ready = -1 THEN "ev_top" ELSE "ev_clear"]_vars
  /\ [][(pc = "ev_clear" /\ pc' # pc) =>
          /\ pc' = "ev_top"
          /\ would_block'
          /\ readiness' = (readiness /\ ready # tick)]_vars
  /\ [](pc = "ev_clear" => (ready # -1 /\ would_block))

\* C21 witness: after an event was processed the next poll began off
\* WouldBlock, found nothing to decode, and is about to re-run from the top
\* with would_block set and the readiness still cached, not cleared.
C21_Witness ==
  /\ pc = "ev_top"
  /\ would_block
  /\ ready = -1
  /\ readiness
  /\ processed # <<>>
  /\ Decodable = <<>>

\* C22: a poll of the property filter that has handed out its initial pulse
\* goes back to the bridge after every event that is not a PROPERTY_NOTIFY of
\* the interest set, without returning; it returns pending only on a pending
\* of the bridge, and it returns a pulse on the first event that matches. The
\* filter is parked only behind a pending bridge, and the bridge never ends,
\* so the filter never reports the end of the stream.
C22_LoopsPastNonMatching ==
  /\ [][(pc = "ev_ret" /\ pc' # pc) =>
          IF bret = EvPending
            THEN pc' = "f_parked" /\ pulse_src' = pulse_src /\ seen' = seen
            ELSE IF IsInteresting(bret)
              THEN pc' = "f_idle" /\ pulse_src' = Append(pulse_src, bret)
              ELSE pc' = "ev_top" /\ pulse_src' = pulse_src]_vars
  /\ [][(pc' = "f_parked" /\ pc # "f_parked") =>
          (pc = "ev_ret" /\ bret = EvPending)]_vars
  /\ [](pc = "f_parked" => (bret = EvPending /\ ~first))
  /\ [](pc \in {"f_idle", "f_parked", "ev_top", "ev_decode", "ev_clear",
                 "ev_ret", "crashed"})

\* C22 witness: the reactor woke the consumer once, and the one poll that
\* followed swallowed two events outside the interest set before it parked
\* behind the pending bridge; only the initial pulse was ever emitted.
C22_Witness ==
  /\ pc = "f_parked"
  /\ tick = 1 /\ ~os_fail
  /\ Len(seen) = 2
  /\ \A i \in 1..2 : ~IsInteresting(seen[i])
  /\ pulse_src = <<NoEvent>>

\* C23 as stated: whenever a poll of the bridge has returned pending, the
\* connection's queue holds no decoded event, also when Render State
\* operations have used the same connection before the poll.
C23_PendingMeansEmpty ==
  (pc = "ev_ret" /\ bret = EvPending) => xq = <<>>

\* C23, what holds: a poll returns pending only in WouldBlock, on the
\* reactor's word and without a look at the queue; the queue can hold an
\* event at that point only after a Render State operation has run.
C23_PendingOnReactorsWord ==
  (pc = "ev_ret" /\ bret = EvPending) =>
     /\ would_block
     /\ xq # <<>> => (out # <<>> \/ processed # <<>>)

\* C23 witness: the loop is parked behind a pending bridge while an event
\* sits in the connection's queue, with no edge and no readiness left to
\* wake it: update_content read the event in before the reactor saw it.
C23_Witness ==
  /\ pc = "parked"
  /\ bret = EvPending /\ would_block
  /\ xq # <<>>
  /\ ~edge /\ ~readiness /\ ~woken
  /\ processed = <<>>
  /\ out # <<>>

\* C24: every call of the bridge's poll_next ends: the nesting of its calls
\* of itself never exceeds three; it calls itself only after a decode that
\* yielded nothing, with would_block set, so that the nested call asks the
\* reactor; and a call that finds the reactor not ready, an event to decode
\* or the reactor failing unwinds at once. Three is reached only when the
\* reactor dispatched once more while the call was running, and a third
\* nested call that gets to decode finds an event.
C24_BoundedRetries ==
  /\ [](depth <= 3)
  /\ [](depth > 0 => pc \in {"ev_top", "ev_decode", "ev_clear"})
  /\ []((depth > 0 /\ pc = "ev_top") => would_block)
  /\ [][depth' > depth =>
          /\ depth' = depth + 1
          /\ pc' = "ev_top"
          /\ would_block'
          /\ \/ pc = "ev_decode" /\ PollForEvent = <<>> /\ ready = -1
             \/ pc = "ev_clear"]_vars
  /\ [][(pc = "ev_top" /\ pc' # pc /\ ~readiness /\ ~os_fail) =>
          (bret' = EvPending /\ depth' = 0 /\ pc' \notin {"ev_top", "ev_decode", "ev_clear"})]_vars
  /\ [][(pc = "ev_decode" /\ pc' # pc /\ PollForEvent # <<>>) =>
          (bret' = Head(PollForEvent) /\ depth' = 0 /\ pc' = "ev_ret")]_vars
  /\ []((depth = 3 /\ pc = "ev_decode") => PollForEvent # <<>>)

\* C24 witness: a call that began off WouldBlock is in its second nested
\* call and has just found the reactor not ready: it returns pending.
C24_Witness ==
  /\ pc = "ev_top" /\ depth = 2
  /\ would_block /\ ~readiness /\ ~os_fail
  /\ processed # <<>>

C26_EndedSlotKeepsLast ==
  \A k \in 1..N :
     /\ wret[k] => (wdone[k] /\ wq[k] = <<>>)
     /\ wq[k] = <<>> => contents[k] = LastOk(whist[k])

\* C26 witness: the first widget's stream ended after one value, the second
\* widget was updated afterwards, and the first slot still shows its value.
C26_Witness ==
  /\ N = 2
  /\ wret[1] /\ ~wdone[2]
  /\ whist[1] # <<>>
  /\ contents[1] = LastOk(whist[1]) /\ contents[1] # NoText
  /\ contents[2] # NoText
  /\ out[Len(out)][1] = 1
  /\ pc = "select"

\* C27: once the loop runs with no widget registered, or with every widget's
\* stream ended, every event the X server has sent is eventually handed to
\* process_event, however many arrive later; the widget arm is by then
\* disabled or ends at once, and the loop neither returns nor panics.
C27_EventsStillServed ==
  /\ (Running /\ \A k \in 1..N : wret[k]) ~> (processed = sent)
  /\ [](Running => [](pc \notin {"failed", "crashed"}))

\* C27 witness: with no widget registered and the widget arm disabled, the
\* loop was woken twice by the reactor, has handed both events to
\* process_event and is parked on the bridge again.
C27_Witness ==
  /\ N = 0
  /\ pc = "parked"
  /\ tick = 2
  /\ Len(sent) = 2 /\ processed = sent
  /\ "w" \in disabled

\* C28: at every moment each registered widget's stream generator has been
\* called exactly once, the call made by add_widget; no stream is made anew
\* after it yielded an error, and a stream that has ended stays ended with
\* nothing more to yield.
C28_GeneratedOnce ==
  /\ Len(stream_gen_calls) = N
  /\ \A k \in 1..N : stream_gen_calls[k] = 1
  /\ \A k \in 1..N : wret[k] => (fuse_b[k] /\ wq[k] = <<>>)

\* C28 witness: the first widget's stream yielded an error that was
\* delivered and then ended, the second delivered a value; each generator
\* has run once.
C28_Witness ==
  /\ N = 2
  /\ whist[1] = <<ErrVal>> /\ wret[1]
  /\ whist[2] = <<OkVal(1)>>
  /\ Len(out) = 2
  /\ stream_gen_calls = <<1, 1>>
  /\ pc = "parked"

\* C29: for every reply to the desktop count and to the name list, on_change
\* yields an Ok item of exactly n segments, n being the reported count or 0
\* when that reply failed: the first min(n, number of names) segments carry
\* the reported names in order, names beyond n are left out, every further
\* segment reads "?", and a failed name reply counts as no names.
C29_ExactlyNSegments ==
  on_change_ret # NotCalled =>
     LET n == IF wm.number.ok THEN wm.number.val ELSE 0
         reported == IF wm.names.ok THEN wm.names.val ELSE <<>>
         named == IF n < Len(reported) THEN n ELSE Len(reported)
         texts == on_change_ret.texts
     IN /\ on_change_ret.ok
        /\ Len(texts) = n
        /\ SubSeq([i \in 1..n |-> texts[i].text], 1, named) = SubSeq(reported, 1, named)
        /\ \A i \in (named + 1)..n : texts[i].text = Unnamed

\* C29 witness: three desktops of which the WM names one: the name, then
\* two "?".
C29_Witness ==
  /\ on_change_ret # NotCalled
  /\ wm.number = [ok |-> TRUE, val |-> 3]
  /\ wm.names = [ok |-> TRUE, val |-> <<1>>]
  /\ [i \in 1..3 |-> on_change_ret.texts[i].text] = <<1, Unnamed, Unnamed>>

\* C30: whatever control messages arrive, the volume stream never yields
\* State::Unknown and never yields the same state twice in a row; the local
\* state is the last state yielded, and after the first message it is the
\* state computed from (muted, percentage); a message that leaves the stream
\* muted yields nothing, a level change included.
C30_YieldsOnlyChanges ==
  /\ [](\A i \in 1..Len(yielded) : yielded[i] # Unknown)
  /\ [](\A i \in 1..(Len(yielded) - 1) : yielded[i] # yielded[i + 1])
  /\ [](state = IF yielded = <<>> THEN Unknown ELSE yielded[Len(yielded)])
  /\ [](controls # <<>> =>
          state = IF muted THEN Muted ELSE [kind |-> "Unmuted", percentage |-> percentage])
  /\ [][(muted /\ muted') => yielded' = yielded]_vars
  /\ [][yielded' # yielded =>
          (yielded' = Append(yielded, state') /\ state' # state)]_vars

\* C30 witness: muted, then the level changed while muted, then unmuted:
\* two states were yielded for three messages, the second with the new level.
C30_Witness ==
  /\ controls = <<[name |-> "output", func |-> "mute", value |-> 1],
                  [name |-> "output", func |-> "level", value |-> 128],
                  [name |-> "output", func |-> "mute", value |-> 0]>>
  /\ yielded = <<Muted, Unmuted(12800)>>

\* C31: the Weather stream yields Ok items until a fetch fails; the failure
\* is yielded as one Err item, which is the stream's last: the body is over,
\* no fetch begins afterwards and the next poll reports the end of the
\* stream. Every fetch has yielded exactly one item, and after a successful
\* fetch the next one begins no sooner than thirty minutes after that item.
C31_ErrEndsStream ==
  /\ [](\A i \in 1..(Len(weather_items) - 1) : weather_items[i].ok)
  /\ [](weather_pc = "ended" <=>
          (weather_items # <<>> /\ ~weather_items[Len(weather_items)].ok))
  /\ [](weather_none => weather_pc = "ended")
  /\ [](Len(fetch_times) =
          Len(weather_items) + IF weather_pc = "fetching" THEN 1 ELSE 0)
  /\ [](\A i \in 1..(Len(fetch_times) - 1) :
          fetch_times[i + 1] - fetch_times[i] >= 1800)
  /\ [][weather_pc = "ended" =>
          (weather_pc' = "ended" /\ weather_items' = weather_items
           /\ fetch_times' = fetch_times)]_vars
  /\ [][(fetch_times' # fetch_times /\ fetch_times # <<>>) =>
          (weather_pc = "sleeping" /\ clock >= deadline
           /\ weather_items[Len(weather_items)].ok)]_vars

\* C31 witness: the first fetch succeeded, the second began thirty minutes
\* later and failed; the stream yielded Ok, then Err, and has reported its
\* end.
C31_Witness ==
  /\ weather_items = <<OkVal(1), ErrVal>>
  /\ fetch_times = <<0, 1800>>
  /\ weather_none

====
